---- MODULE Spec2Model ----
(***************************************************************************)
(* A model of bson/objectid.py: the 12-byte ObjectId, its generation from  *)
(* the process-wide counter, its construction from bytes / hex text /      *)
(* another ObjectId / a datetime, is_valid, the pickling hooks and the     *)
(* byte-wise comparisons.                                                  *)
(*                                                                         *)
(* Python values are records [kind, v]: kind is "bytes", "text" (str),     *)
(* "int", "bool", "none", and v is the sequence of byte values or code     *)
(* points (<<n>> for an int).  An ObjectId instance given as an argument   *)
(* is [kind |-> "oid", v |-> <<>>, id |-> its __id].                       *)
(*                                                                         *)
(* Python integers are unbounded; the ones that can leave 31 bits (epoch   *)
(* seconds, the 32-bit FNV hash) are kept as two limbs <<hi, lo>> standing *)
(* for hi * 65536 + lo with lo in 0..65535.                                *)
(***************************************************************************)
EXTENDS Integers, Sequences, FiniteSets, TLC

VARIABLES
    pid,            \* os.getpid() of the process
    machine_bytes,  \* ObjectId._machine_bytes
    inc,            \* ObjectId._inc
    inc_lock,       \* ObjectId._inc_lock: 0 (free) or the thread holding it
    objs,           \* per thread, the __id of the ObjectId its variable holds
    pc,             \* per thread, where it is inside __generate
    oid,            \* per thread, the local oid of __generate
    now,            \* per thread, the int(time.time()) its __generate read
    caller,         \* per thread, who called ObjectId(None)
    ret,            \* the last call that returned or raised
    origin,         \* per thread, the datetime its ObjectId was made from
    issued,         \* history: the counter values read at line 195
    wraps,          \* history: how often the counter went back
    inc0,           \* history: the counter at module load
    ngen            \* history: generations started

vars == <<pid, machine_bytes, inc, inc_lock, objs, pc, oid, now, caller, ret,
          origin, issued, wraps, inc0, ngen>>

(***************************** bounds ***************************************)
\* threads of the process that call into the module
NumThreads == 2
\* generations started in one behaviour
MaxGen == 3

Threads == 1..NumThreads

(************************* integers and bytes *******************************)
RECURSIVE XorBits(_, _, _)
\* a ^ b on non-negative integers below 2^n
XorBits(a, b, n) ==
    IF n = 0 THEN 0
    ELSE ((a + b) % 2) + 2 * XorBits(a \div 2, b \div 2, n - 1)

\* int(x) of a small integer as limbs
Limbs(n) == <<n \div 65536, n % 65536>>

\* limbs compared as the integers they stand for
LimbLess(a, b) == a[1] < b[1] \/ (a[1] = b[1] /\ a[2] < b[2])

\* a - d for limbs a and a small integer d
LimbSub(a, d) == <<a[1] + ((a[2] - d) \div 65536), (a[2] - d) % 65536>>

PyBytes(s) == [kind |-> "bytes", v |-> s]
PyText(s) == [kind |-> "text", v |-> s]
PyInt(n) == [kind |-> "int", v |-> <<n>>]
PyBool(b) == [kind |-> "bool", v |-> <<IF b THEN 1 ELSE 0>>]
\* an integer kept as limbs
PyTime(n) == [kind |-> "int", v |-> n]
None == [kind |-> "none", v |-> <<>>]
\* a datetime: v is <<hi, lo, microsecond>> of the wall clock, off its
\* utcoffset() in seconds when aware
PyDate(sec, us, aware, off) ==
    [kind |-> "datetime", v |-> <<sec[1], sec[2], us>>, aware |-> aware, off |-> off]
NoDate == [kind |-> "none", v |-> <<>>, aware |-> FALSE, off |-> 0]
\* a variable that holds no ObjectId yet
Unset == [kind |-> "unset", v |-> <<>>]
Oid(raw) == [kind |-> "oid", v |-> <<>>, id |-> raw]

\* what a call gives back: the exception it raised ("none": it returned val)
Returned(val) == [exc |-> "none", val |-> val]
Raised(e) == [exc |-> e, val |-> None]

\* a pack that keeps the low 32 bits of any integer
pack_be_i_wrapping(n) ==
    Returned(PyBytes(<<(n[1] % 65536) \div 256, (n[1] % 65536) % 256,
                     n[2] \div 256, n[2] % 256>>))

\* struct.pack(">i", n), n as limbs: struct.error outside [-2^31, 2^31)
pack_be_i(n) ==
    IF n[1] < -32768 \/ n[1] > 32767
    THEN Raised("struct.error")
    ELSE Returned(PyBytes(<<(n[1] % 65536) \div 256, (n[1] % 65536) % 256,
                          n[2] \div 256, n[2] % 256>>))

\* struct.pack(">H", n): struct.error outside [0, 65536)
pack_be_H(n) ==
    IF n < 0 \/ n > 65535
    THEN Raised("struct.error")
    ELSE Returned(PyBytes(<<n \div 256, n % 256>>))

\* struct.pack("<I", n) of a value below 2^24
pack_le_I(n) == PyBytes(<<n % 256, (n \div 256) % 256, n \div 65536, 0>>)

\* struct.unpack(">i", b)[0] as limbs
unpack_be_i(b) ==
    LET hu == b[1] * 256 + b[2]
    IN  <<IF hu >= 32768 THEN hu - 65536 ELSE hu, b[3] * 256 + b[4]>>

(****************************** FNV-1a **************************************)
fnv_32_prime == <<256, 403>>       \* 16777619
fnv_offset_basis == <<33052, 40389>>     \* 2166136261

\* (h * fnv_32_prime) % 2**32 on limbs
fnv_mul(h) ==
    LET low == h[2] * fnv_32_prime[2]
    IN  <<((low \div 65536) + h[1] * fnv_32_prime[2] + h[2] * fnv_32_prime[1]) % 65536,
          low % 65536>>

RECURSIVE fnv_1a_32(_, _)
\* the loop of _fnv_1a_24 over data, from hash h
fnv_1a_32(data, h) ==
    IF data = <<>> THEN h
    ELSE fnv_1a_32(Tail(data), fnv_mul(<<h[1], XorBits(h[2], Head(data), 16)>>))

\* (h >> 24) ^ (h & 0xFFFFFF)
xor_fold(h) == (h[1] % 256) * 65536 + XorBits(h[2], h[1] \div 256, 16)

fnv_1a_24(data) == xor_fold(fnv_1a_32(data, fnv_offset_basis))

\* _machine_bytes() for a host name given as its encoded bytes
MachineBytes(hostname) == SubSeq(pack_le_I(fnv_1a_24(hostname)).v, 1, 3)

(************************** process environment *****************************)
\* socket.gethostname().encode(): "", "a", "ab"
HostSamples == {<<>>, <<97, 98>>}
\* os.getpid()
PidSamples == {1234, 65535, 65536}
\* random.randint(0, 0xFFFFFF): both ends included
MaxInc == 16777215
IncSamples == {4660, MaxInc - 1, MaxInc}
\* int(time.time()): 1700000000, 2^31, -1, -2^31 - 1
TimeSamples == {<<25939, 61696>>, <<32768, 0>>, <<-1, 65535>>, <<-32769, 65535>>}
\* 1700000000 and 2^31
TimeFew == {<<25939, 61696>>, <<32768, 0>>}

(***************************** generation ***********************************)
\* a lock that never blocks
LockAlwaysFree(lock) == TRUE

\* ObjectId._inc_lock can be taken (line 194)
LockFree(lock) == lock = 0

\* os.getpid() % 0xFFFF
PidField(p) == p % 65535

\* (ObjectId._inc + 1) % 0xFFFFFF
NextInc(c) == (c + 1) % 16777215

\* struct.pack(">i", ObjectId._inc)[1:4]
IncBytes(c) == SubSeq(pack_be_i(Limbs(c)).val.v, 2, 4)

\* ObjectId() entered: lines 185-191, the 9 bytes before the counter
GenStart(t, from, times) ==
    /\ pc[t] = "idle"
    /\ ngen < MaxGen
    /\ caller' = [caller EXCEPT ![t] = from]
    /\ \E tm \in times :
         LET ts == pack_be_i(tm)
             pd == pack_be_H(PidField(pid))
         IN  /\ ngen' = ngen + 1
             /\ now' = [now EXCEPT ![t] = tm]
             /\ IF ts.exc # "none"
                THEN /\ ret' = [op |-> from, arg |-> PyTime(tm), exc |-> ts.exc, val |-> None]
                     /\ UNCHANGED <<pc, oid>>
                ELSE /\ oid' = [oid EXCEPT ![t] = ts.val.v \o machine_bytes \o pd.val.v]
                     /\ pc' = [pc EXCEPT ![t] = "lock"]
                     /\ UNCHANGED ret
    /\ UNCHANGED <<pid, machine_bytes, inc, inc_lock, objs, origin, issued, wraps, inc0>>

\* with ObjectId._inc_lock: (line 194)
GenLock(t) ==
    /\ pc[t] = "lock"
    /\ LockFree(inc_lock)
    /\ inc_lock' = t
    /\ pc' = [pc EXCEPT ![t] = "pack_inc"]
    /\ UNCHANGED <<pid, machine_bytes, inc, objs, oid, now, caller, ret, origin, issued, wraps, inc0, ngen>>

\* oid += struct.pack(">i", ObjectId._inc)[1:4] (line 195)
GenPackInc(t) ==
    /\ pc[t] = "pack_inc"
    /\ oid' = [oid EXCEPT ![t] = @ \o IncBytes(inc)]
    /\ issued' = Append(issued, [t |-> t, c |-> inc, epoch |-> wraps, from |-> caller[t]])
    /\ pc' = [pc EXCEPT ![t] = "incr"]
    /\ UNCHANGED <<pid, machine_bytes, inc, inc_lock, objs, now, caller, ret, origin, wraps, inc0, ngen>>

\* ObjectId._inc = (ObjectId._inc + 1) % 0xFFFFFF, and the lock released
\* (line 196 and the end of the with block)
GenIncr(t) ==
    /\ pc[t] = "incr"
    /\ inc' = NextInc(inc)
    /\ wraps' = IF NextInc(inc) <= inc THEN wraps + 1 ELSE wraps
    /\ inc_lock' = IF inc_lock = t THEN 0 ELSE inc_lock
    /\ pc' = [pc EXCEPT ![t] = "store"]
    /\ UNCHANGED <<pid, machine_bytes, objs, oid, now, caller, ret, origin, issued, inc0, ngen>>

\* self.__id = oid (line 198); ObjectId(None) returns, to the caller of the
\* constructor or to is_valid (line 177), which drops the object
GenStore(t) ==
    /\ pc[t] = "store"
    /\ IF caller[t] = "generate"
       THEN /\ objs' = [objs EXCEPT ![t] = PyBytes(oid[t])]
            /\ origin' = [origin EXCEPT ![t] = NoDate]
            /\ ret' = [op |-> "generate", arg |-> PyTime(now[t]), exc |-> "none",
                       val |-> PyBytes(oid[t])]
       ELSE /\ ret' = [op |-> "is_valid", arg |-> None, exc |-> "none", val |-> PyBool(TRUE)]
            /\ UNCHANGED <<objs, origin>>
    /\ pc' = [pc EXCEPT ![t] = "idle"]
    /\ oid' = [oid EXCEPT ![t] = <<>>]
    /\ now' = [now EXCEPT ![t] = <<0, 0>>]
    /\ UNCHANGED <<pid, machine_bytes, inc, inc_lock, caller, issued, wraps, inc0, ngen>>

\* ObjectId(): __init__ with oid None (lines 122-123)
Generate(t, times) == GenStart(t, "generate", times) \/ GenLock(t) \/ GenPackInc(t) \/ GenIncr(t) \/ GenStore(t)

(******************** bson.py3compat (not among the sources) ****************)
\* the interpreter is Python 3: text is str, byte strings are bytes
PY3 == TRUE

\* isinstance(x, string_type)
string_type(x) == x.kind = "text"

\* isinstance(x, text_type)
text_type(x) == x.kind = "text"

IsHexDigit(c) == c \in 48..57 \/ c \in 97..102 \/ c \in 65..70

HexVal(c) == IF c \in 48..57 THEN c - 48 ELSE IF c \in 97..102 THEN c - 87 ELSE c - 55

\* bytes_from_hex(s): two hex digits of either case per byte, ValueError otherwise
bytes_from_hex(s) ==
    IF Len(s.v) % 2 # 0 \/ \E k \in 1..Len(s.v) : ~IsHexDigit(s.v[k])
    THEN Raised("ValueError")
    ELSE Returned(PyBytes([k \in 1..(Len(s.v) \div 2) |->
                              16 * HexVal(s.v[2 * k - 1]) + HexVal(s.v[2 * k])]))

(**************************** construction **********************************)
\* __validate(oid) (lines 211-226): the __id it stores, or what it raises
validate_oid(x) ==
    IF x.kind = "oid" THEN Returned(x.id)
    ELSE IF string_type(x)
    THEN IF Len(x.v) = 24
         THEN LET r == bytes_from_hex(x)
              IN  IF r.exc \in {"TypeError", "ValueError"} THEN Raised("InvalidId") ELSE r
         ELSE Raised("InvalidId")
    ELSE Raised("TypeError")

\* a fast path that takes byte strings of every length
is_12_bytes_any(x) == x.kind = "bytes"

\* isinstance(oid, bytes) and len(oid) == 12 (line 124)
is_12_bytes(x) == x.kind = "bytes" /\ Len(x.v) = 12

\* __init__(oid) for an oid that is not None (lines 124-127)
init_oid(x) == IF is_12_bytes(x) THEN Returned(x) ELSE validate_oid(x)

\* a check that never short-circuits
not_oid_never(x) == FALSE

\* not oid (line 172): None, 0, "", b""; an ObjectId defines neither
\* __bool__ nor __len__ and is never falsy
not_oid(x) ==
    \/ x.kind = "none"
    \/ (x.kind = "int" /\ x.v = <<0>>)
    \/ (x.kind \in {"bytes", "text"} /\ x.v = <<>>)

\* a handler that lets every exception of ObjectId(oid) through
is_valid_catches_none(e) == FALSE

\* except (InvalidId, TypeError) (line 178); InvalidId is a ValueError
\* subclass, the others are not InvalidId
is_valid_catches(e) == e \in {"InvalidId", "TypeError"}

\* is_valid(oid) for an oid that is not None (lines 172-179)
is_valid(x) ==
    IF not_oid(x) THEN Returned(PyBool(FALSE))
    ELSE LET r == init_oid(x)
         IN  IF r.exc = "none" THEN Returned(PyBool(TRUE))
             ELSE IF is_valid_catches(r.exc) THEN Returned(PyBool(FALSE))
             ELSE Raised(r.exc)

\* a conversion that forgets the utcoffset
timegm_naive(dt) == <<dt.v[1], dt.v[2]>>

\* the datetime converted to UTC (lines 157-158) and calendar.timegm of its
\* timetuple (line 159), which carries no microseconds
timegm_utc(dt) ==
    IF dt.aware THEN LimbSub(<<dt.v[1], dt.v[2]>>, dt.off) ELSE <<dt.v[1], dt.v[2]>>

\* from_datetime(generation_time) (lines 157-161)
from_datetime(dt) ==
    LET p == pack_be_i(timegm_utc(dt))
    IN  IF p.exc # "none" THEN p
        ELSE init_oid(PyBytes(p.val.v \o <<0, 0, 0, 0, 0, 0, 0, 0>>))

\* str.encode("latin-1")
encode_latin_1(x) ==
    IF \E k \in 1..Len(x.v) : x.v[k] > 255
    THEN Raised("UnicodeEncodeError")
    ELSE Returned(PyBytes(x.v))

\* __setstate__(value) (lines 271-281); a state is [form, x]: x itself
\* ("raw"), {"_ObjectId__id": x} ("dict") or a dict without the key ("nokey")
setstate(value) ==
    IF value.form = "nokey" THEN Raised("KeyError")
    ELSE IF PY3 /\ text_type(value.x) THEN encode_latin_1(value.x)
    ELSE Returned(value.x)

\* __getstate__() (line 265)
getstate(id) == [form |-> "raw", x |-> id]

\* digits that come out in upper case
HexDigitUpper(n) == IF n < 10 THEN 48 + n ELSE 55 + n

\* one digit of binascii.hexlify: 0-9, a-f
HexDigit(n) == IF n < 10 THEN 48 + n ELSE 87 + n

\* binascii.hexlify(b): TypeError unless b is a byte string
hexlify(b) ==
    IF b.kind # "bytes" THEN Raised("TypeError")
    ELSE Returned(PyBytes([k \in 1..(2 * Len(b.v)) |->
              IF k % 2 = 1 THEN HexDigit(b.v[(k + 1) \div 2] \div 16)
              ELSE HexDigit(b.v[k \div 2] % 16)]))

\* __str__() (lines 284-286)
str_oid(id) ==
    LET h == hexlify(id)
    IN  IF h.exc # "none" THEN h
        ELSE IF PY3 THEN Returned(PyText(h.val.v)) ELSE h

RECURSIVE SeqLess(_, _)
\* a < b on byte strings / strings: lexicographic, a proper prefix first
SeqLess(a, b) ==
    IF b = <<>> THEN FALSE
    ELSE IF a = <<>> THEN TRUE
    ELSE IF Head(a) # Head(b) THEN Head(a) < Head(b)
    ELSE SeqLess(Tail(a), Tail(b))

\* __lt__(other) (lines 302-303): self.__id < other.binary
lt_oid(a, b) ==
    IF a.kind = b.kind /\ a.kind \in {"bytes", "text"} THEN Returned(PyBool(SeqLess(a.v, b.v)))
    ELSE IF a.kind = "int" /\ b.kind = "int" THEN Returned(PyBool(a.v[1] < b.v[1]))
    ELSE Raised("TypeError")

\* __eq__(other) (lines 292-293)
eq_oid(a, b) == Returned(PyBool(a = b))

\* generation_time (lines 258-259): the first four bytes as a UTC datetime
generation_time(id) ==
    IF id.kind # "bytes" THEN Raised("TypeError")
    ELSE IF Len(id.v) < 4 THEN Raised("struct.error")
    ELSE Returned(PyDate(unpack_be_i(SubSeq(id.v, 1, 4)), 0, TRUE, 0))

(****************************** inputs **************************************)
\* "0123456789ab0123456789ab"
Hex24 == <<48, 49, 50, 51, 52, 53, 54, 55, 56, 57, 97, 98,
           48, 49, 50, 51, 52, 53, 54, 55, 56, 57, 97, 98>>
\* "0123456789AB0123456789ab"
Hex24Upper == <<48, 49, 50, 51, 52, 53, 54, 55, 56, 57, 65, 66,
                48, 49, 50, 51, 52, 53, 54, 55, 56, 57, 97, 98>>
\* "foo-bar-quux"
FooBarQuux == <<102, 111, 111, 45, 98, 97, 114, 45, 113, 117, 117, 120>>

ByteInputs == {PyBytes(<<>>), PyBytes(SubSeq(FooBarQuux, 1, 11)), PyBytes(FooBarQuux),
               PyBytes(FooBarQuux \o <<33>>)}
TextInputs == {PyText(<<>>), PyText(SubSeq(Hex24, 1, 23)), PyText(Hex24),
               PyText(Hex24Upper), PyText(SubSeq(Hex24, 1, 23) \o <<103>>),
               PyText(Hex24 \o <<48>>), PyText(FooBarQuux)}
IntInputs == {PyInt(0), PyInt(5)}
\* the ObjectId instances the threads hold
OidInputs == {Oid(objs[s]) : s \in {u \in Threads : objs[u] # Unset}}
Inputs == ByteInputs \cup TextInputs \cup IntInputs \cup OidInputs
\* 11 bytes, 12 bytes, 24 hex digits, an ObjectId
InputsFew == {PyBytes(SubSeq(FooBarQuux, 1, 11)), PyBytes(FooBarQuux), PyText(Hex24Upper)}
             \cup OidInputs

\* pickled states: 12 bytes, 3 bytes, the pymongo-1.9 dict, a dict without
\* the key, Python 2 str states (12 and 3 characters, one not Latin-1), an int
StateInputs ==
    {[form |-> "raw", x |-> PyBytes(FooBarQuux)],
     [form |-> "raw", x |-> PyBytes(<<1, 2, 3>>)],
     [form |-> "dict", x |-> PyBytes(FooBarQuux)],
     [form |-> "nokey", x |-> None],
     [form |-> "raw", x |-> PyText(FooBarQuux)],
     [form |-> "raw", x |-> PyText(<<1, 2, 3>>)],
     [form |-> "raw", x |-> PyText(SubSeq(FooBarQuux, 1, 11) \o <<256>>)],
     [form |-> "raw", x |-> PyInt(5)]}
    \cup {getstate(objs[s]) : s \in {u \in Threads : objs[u] # Unset}}
StatesFew == {[form |-> "raw", x |-> PyBytes(<<1, 2, 3>>)],
              [form |-> "dict", x |-> PyBytes(FooBarQuux)],
              [form |-> "nokey", x |-> None]}

\* epoch seconds: 0, 1, -1, -2, 2^31 - 1, 2^31, -2^31 - 1
SecondSamples == {<<0, 0>>, <<0, 1>>, <<-1, 65535>>, <<-1, 65534>>,
                  <<32767, 65535>>, <<32768, 0>>, <<-32769, 65535>>}
DateSamples ==
    {PyDate(s, us, FALSE, 0) : s \in SecondSamples, us \in {0, 500000}}
    \cup {PyDate(<<0, 3600>>, 0, TRUE, 3600), PyDate(<<0, 1800>>, 0, TRUE, 0),
          PyDate(<<0, 0>>, 0, TRUE, 3600)}
\* 2010-01-01 and one second before the epoch
DateFew == {PyDate(<<19258, 48000>>, 0, FALSE, 0), PyDate(<<-1, 65535>>, 500000, FALSE, 0)}

(****************************** the calls ***********************************)
\* a call by thread t that builds an ObjectId: on success the thread's
\* variable holds the new object, on an exception nothing is stored
Build(t, op, arg, r, made_from) ==
    /\ pc[t] = "idle"
    /\ ret' = [op |-> op, arg |-> arg, exc |-> r.exc, val |-> r.val]
    /\ IF r.exc = "none"
       THEN /\ objs' = [objs EXCEPT ![t] = r.val]
            /\ origin' = [origin EXCEPT ![t] = made_from]
       ELSE UNCHANGED <<objs, origin>>
    /\ UNCHANGED <<pid, machine_bytes, inc, inc_lock, pc, oid, now, caller,
                   issued, wraps, inc0, ngen>>

\* a call by thread t that only reads
Read(t, op, arg, r) ==
    /\ pc[t] = "idle"
    /\ ret' = [op |-> op, arg |-> arg, exc |-> r.exc, val |-> r.val]
    /\ UNCHANGED <<pid, machine_bytes, inc, inc_lock, objs, pc, oid, now, caller,
                   origin, issued, wraps, inc0, ngen>>

\* ObjectId(oid) with an argument
Construct(t, inputs) == \E x \in inputs : Build(t, "init", x, init_oid(x), NoDate)

\* ObjectId.from_datetime(dt)
FromDatetime(t, dates) == \E dt \in dates : Build(t, "from_datetime", dt, from_datetime(dt), dt)

\* unpickling: a new object whose __setstate__ gets the pickled state
SetState(t, states) ==
    \E value \in states :
        Build(t, "setstate", [kind |-> value.form, v |-> <<>>, x |-> value.x],
              setstate(value), NoDate)

\* ObjectId.is_valid(oid): ObjectId(None) behind the check would generate
IsValid(t, inputs) ==
    \/ \E x \in inputs : Read(t, "is_valid", x, is_valid(x))
    \/ IF not_oid(None)
       THEN Read(t, "is_valid", None, Returned(PyBool(FALSE)))
       ELSE GenStart(t, "is_valid", TimeFew)

Held(t) == objs[t] # Unset

\* x.binary (line 247)
binary(id) == Returned(id)

\* str(x), x.binary, x.generation_time
ReadOne(t) ==
    /\ Held(t)
    /\ \/ Read(t, "str", Oid(objs[t]), str_oid(objs[t]))
       \/ Read(t, "binary", Oid(objs[t]), binary(objs[t]))
       \/ Read(t, "generation_time", Oid(objs[t]), generation_time(objs[t]))

\* x < y and x == y on the objects of threads t and s
Compare(t) ==
    \E s \in Threads :
        /\ Held(t) /\ Held(s)
        /\ \/ Read(t, "lt", [kind |-> "pair", v |-> <<t, s>>], lt_oid(objs[t], objs[s]))
           \/ Read(t, "eq", [kind |-> "pair", v |-> <<t, s>>], eq_oid(objs[t], objs[s]))

NoRet == [op |-> "none", arg |-> None, exc |-> "none", val |-> None]

\* module load: class attributes _inc, _inc_lock, _machine_bytes (lines 76-79)
InitGen ==
    /\ pid \in PidSamples
    /\ \E h \in HostSamples : machine_bytes = MachineBytes(h)
    /\ inc \in IncSamples
    /\ inc0 = inc
    /\ inc_lock = 0
    /\ objs = [t \in Threads |-> Unset]
    /\ pc = [t \in Threads |-> "idle"]
    /\ oid = [t \in Threads |-> <<>>]
    /\ now = [t \in Threads |-> <<0, 0>>]
    /\ caller = [t \in Threads |-> "generate"]
    /\ origin = [t \in Threads |-> NoDate]
    /\ ret = NoRet
    /\ issued = <<>>
    /\ wraps = 0
    /\ ngen = 0

NextGen == \E t \in Threads : Generate(t, TimeSamples)

\* concurrent generation by the threads of one process
SpecGen == InitGen /\ [][NextGen]_vars

\* module load on one host, in one process
Init ==
    /\ pid = 1234
    /\ machine_bytes = MachineBytes(<<97, 98>>)
    /\ inc = MaxInc - 1
    /\ inc0 = inc
    /\ inc_lock = 0
    /\ objs = [t \in Threads |-> Unset]
    /\ pc = [t \in Threads |-> "idle"]
    /\ oid = [t \in Threads |-> <<>>]
    /\ now = [t \in Threads |-> <<0, 0>>]
    /\ caller = [t \in Threads |-> "generate"]
    /\ origin = [t \in Threads |-> NoDate]
    /\ ret = NoRet
    /\ issued = <<>>
    /\ wraps = 0
    /\ ngen = 0

\* the thread that makes the calls
Main == CHOOSE t \in Threads : \A s \in Threads : t <= s

Next ==
    \/ Generate(Main, TimeFew)
    \/ Construct(Main, Inputs)
    \/ FromDatetime(Main, DateFew)
    \/ SetState(Main, StateInputs)
    \/ IsValid(Main, Inputs)
    \/ ReadOne(Main)
    \/ Compare(Main)

\* every call of the class, made by one thread
Spec == Init /\ [][Next]_vars

NextConc ==
    \/ \E t \in Threads : Generate(t, TimeFew)
    \/ Construct(Main, InputsFew)
    \/ FromDatetime(Main, DateFew)
    \/ SetState(Main, StatesFew)
    \/ IsValid(Main, InputsFew)
    \/ ReadOne(Main)
    \/ Compare(Main)

\* the calls of one thread while every thread generates
SpecConc == Init /\ [][NextConc]_vars

\* two ObjectIds made from datetimes and compared
NextOrd == \E t \in Threads : FromDatetime(t, DateSamples) \/ Compare(t)

SpecOrd == Init /\ [][NextOrd]_vars

(********************** claims on concurrent generation *********************)
InCritical(t) == pc[t] \in {"pack_inc", "incr"}

\* C1: in any interleaving of generating threads no two generations are
\* issued the same counter value unless the counter wrapped between them,
\* and at most one thread is between the read of the counter and its
\* increment.
C1_NoDuplicateCounter ==
    /\ \A i, j \in 1..Len(issued) :
          (i < j /\ issued[i].c = issued[j].c) => issued[i].epoch < issued[j].epoch
    /\ \A s, t \in Threads : (InCritical(s) /\ InCritical(t)) => s = t

\* two threads were issued counter values while another generation was
\* waiting for the lock
C1_Witness ==
    /\ Len(issued) >= 2
    /\ issued[1].t # issued[2].t
    /\ \E s, t \in Threads : s # t /\ pc[s] = "lock" /\ InCritical(t)

\* C2: each generation carries the current counter value c and leaves the
\* shared counter at (c + 1) mod 2^24, so consecutive generations carry
\* consecutive values mod 2^24 (pairwise distinct over 2^24 generations).
C2_CounterStepsMod2Pow24 ==
    /\ \A k \in 1..Len(issued) :
          k < Len(issued) => issued[k + 1].c = (issued[k].c + 1) % 16777216
    /\ (Len(issued) > 0 /\ \A t \in Threads : ~InCritical(t))
          => inc = (issued[Len(issued)].c + 1) % 16777216

OutOfRange32(n) == n[1] < -32768 \/ n[1] > 32767

\* the low 32 bits of n, big-endian
Low32Bytes(n) ==
    <<(n[1] % 65536) \div 256, n[1] % 256, n[2] \div 256, n[2] % 256>>

\* C4 as stated: a generation whose time in seconds is outside
\* [-2^31, 2^31) does not fail and stores the wrapped value in bytes [0:4].
C4_OutOfRangeTimeWraps ==
    (ret.op = "generate" /\ OutOfRange32(ret.arg.v))
        => (ret.exc = "none" /\ SubSeq(ret.val.v, 1, 4) = Low32Bytes(ret.arg.v))

\* C4 amended: a generation whose time in seconds is outside [-2^31, 2^31)
\* fails with struct.error and yields no identifier; inside the range it
\* succeeds and bytes [0:4] are the signed big-endian 32-bit encoding.
C4_OutOfRangeTimeRaises ==
    ret.op = "generate" =>
        IF OutOfRange32(ret.arg.v)
        THEN ret.exc = "struct.error" /\ ret.val = None
        ELSE ret.exc = "none" /\ SubSeq(ret.val.v, 1, 4) = Low32Bytes(ret.arg.v)

\* a generation at 2^31 or at -2^31 - 1 seconds raised, and one at -1 stored ff ff ff ff
C4_Witness ==
    /\ ret.op = "generate"
    /\ ret.arg.v = <<32768, 0>>
    /\ ret.exc = "struct.error"
    /\ \E t \in Threads : objs[t] # Unset /\ SubSeq(objs[t].v, 1, 4) = <<255, 255, 255, 255>>

\* C5: bytes [7:9] of a generated identifier are the unsigned big-endian
\* 16-bit encoding of pid mod 65536.
C5_PidMod65536 ==
    (ret.op = "generate" /\ ret.exc = "none")
        => SubSeq(ret.val.v, 8, 9) = <<(pid % 65536) \div 256, (pid % 65536) % 256>>

(*************************** claims on the calls ****************************)
HexChars == (48..57) \cup (65..70) \cup (97..102)
LowerHexChars == (48..57) \cup (97..102)
Lower(v) == [k \in 1..Len(v) |-> IF v[k] \in 65..90 THEN v[k] + 32 ELSE v[k]]
Twelve(id) == id.kind = "bytes" /\ Len(id.v) = 12

\* the inputs an ObjectId can be made from: an ObjectId, 12 bytes, 24 hex digits
Acceptable(x) ==
    \/ x.kind = "oid"
    \/ (x.kind = "bytes" /\ Len(x.v) = 12)
    \/ (x.kind = "text" /\ Len(x.v) = 24 /\ \A k \in 1..24 : x.v[k] \in HexChars)

\* C6: is_valid never raises InvalidId or TypeError, is false for every
\* falsy candidate, and for the others is true exactly for an ObjectId, 12
\* bytes or 24 hex digits (false for 23 or 25 digits, a non-hex character,
\* a non-zero integer, 11 or 13 bytes).
C6_IsValid ==
    ret.op = "is_valid" =>
        /\ ret.exc = "none"
        /\ ret.val = PyBool(Acceptable(ret.arg))

\* is_valid of a generated identifier held by the caller returned true
C6_Witness ==
    /\ ret.op = "is_valid"
    /\ ret.val = PyBool(TRUE)
    /\ Held(Main)
    /\ ret.arg = Oid(objs[Main])
    /\ \E k \in 1..Len(issued) : SubSeq(objs[Main].v, 10, 12) = IncBytes(issued[k].c)

\* C7: ObjectId(oid) succeeds for an ObjectId, 12 bytes or 24 hex digits,
\* raises InvalidId for any other text and any other byte sequence, and
\* TypeError for every other type; a failure stores nothing.
C7_ConstructionOutcomes ==
    ret.op = "init" =>
        /\ ret.exc = IF Acceptable(ret.arg) THEN "none"
                     ELSE IF ret.arg.kind \in {"text", "bytes"} THEN "InvalidId"
                     ELSE "TypeError"
        /\ ret.exc # "none" => ret.val = None

AllTwelve == \A t \in Threads : Held(t) => Twelve(objs[t])

TwelveState(a) ==
    /\ a.kind \in {"raw", "dict"}
    /\ a.x.kind \in {"bytes", "text"}
    /\ Len(a.x.v) = 12
    /\ \A k \in 1..12 : a.x.v[k] <= 255

\* a step that copies an ObjectId which does not hold 12 bytes, or restores
\* one from a state that does not carry 12 bytes
UncheckedStep ==
    /\ ret' # ret
    /\ \/ ret'.op = "setstate" /\ ~TwelveState(ret'.arg)
       \/ ret'.op = "init" /\ ret'.arg.kind = "oid"

HexRoundTrip(id) ==
    LET h == str_oid(id)
    IN  /\ h.exc = "none"
        /\ h.val.kind = "text"
        /\ Len(h.val.v) = 24
        /\ \A k \in 1..Len(h.val.v) : h.val.v[k] \in LowerHexChars
        /\ init_oid(h.val) = Returned(id)

ParsedCaseInsensitively ==
    (ret.op = "init" /\ ret.arg.kind = "text" /\ Acceptable(ret.arg))
        => /\ ret.exc = "none"
           /\ str_oid(ret.val) = Returned(PyText(Lower(ret.arg.v)))

\* C9 as stated: every ObjectId x equals the ObjectId parsed from str(x),
\* str(x) is 24 lower-case hex digits, and parsing ignores letter case.
C9_HexRoundTripAll ==
    /\ \A t \in Threads : Held(t) => HexRoundTrip(objs[t])
    /\ ParsedCaseInsensitively

\* C9 amended: the same for every ObjectId that holds 12 raw bytes.
C9_HexRoundTripTwelve ==
    /\ \A t \in Threads : (Held(t) /\ Twelve(objs[t])) => HexRoundTrip(objs[t])
    /\ ParsedCaseInsensitively

\* "0123456789AB0123456789ab" was parsed
C9_Witness ==
    /\ ret.op = "init" /\ ret.arg = PyText(Hex24Upper) /\ ret.exc = "none"
    /\ Held(Main) /\ objs[Main] = ret.val

ReadOps == {"is_valid", "str", "binary", "generation_time", "lt", "eq"}
BuildOps == {"generate", "init", "from_datetime", "setstate"}

\* C10: the counter changes only at the increment of a generation entered
\* through ObjectId(), by one step; every other call, every is_valid and
\* every failed call leave it alone, and reads and failed calls leave
\* every ObjectId as it was.
C10_Frame ==
    [][/\ inc' # inc =>
            \E t \in Threads : /\ pc[t] = "incr" /\ pc'[t] = "store"
                                /\ caller[t] = "generate"
                                /\ inc' = NextInc(inc)
       /\ (ret' # ret /\ ret'.op # "generate") => inc' = inc
       /\ (ret' # ret /\ ret'.exc # "none") => (inc' = inc /\ objs' = objs)
       /\ (ret' # ret /\ ret'.op \in ReadOps) => objs' = objs
       /\ (ret'.op = "is_valid" /\ ret'.arg = None) => ret'.val = PyBool(FALSE)
       /\ \A t \in Threads :
            objs'[t] # objs[t] =>
                /\ ret'.op \in BuildOps /\ ret'.exc = "none" /\ objs'[t] = ret'.val
                /\ \A s \in Threads : s # t => objs'[s] = objs[s]
      ]_vars

\* after one generation, is_valid(None) returned false and the counter is
\* one step from its first value
C10_Witness ==
    /\ ret.op = "is_valid" /\ ret.arg = None /\ ret.val = PyBool(FALSE)
    /\ Len(issued) = 1
    /\ inc = NextInc(inc0)
    /\ \E t \in Threads : Held(t)

(*********************** claims on from_datetime ****************************)
UtcSeconds(dt) ==
    IF dt.aware THEN LimbSub(<<dt.v[1], dt.v[2]>>, dt.off) ELSE <<dt.v[1], dt.v[2]>>

\* t1 < t2 on datetimes that can be compared
DateLess(a, b) ==
    /\ a.kind = "datetime" /\ b.kind = "datetime"
    /\ a.aware = b.aware
    /\ \/ LimbLess(UtcSeconds(a), UtcSeconds(b))
       \/ (UtcSeconds(a) = UtcSeconds(b) /\ a.v[3] < b.v[3])

Compared(k) == origin[ret.arg.v[k]]

\* C3: for timestamps t1 < t2, from_datetime(t1) < from_datetime(t2).
C3_OrderPreserved ==
    (ret.op = "lt" /\ DateLess(Compared(1), Compared(2)))
        => ret.val = PyBool(TRUE)

SameSign(a, b) == (a[1] >= 0 /\ b[1] >= 0) \/ (a[1] < 0 /\ b[1] < 0)

\* C3 amended: for timestamps whose UTC whole seconds s1 < s2 lie both in
\* [0, 2^31) or both in [-2^31, 0), from_datetime(t1) < from_datetime(t2).
C3_OrderPreservedSameSign ==
    (/\ ret.op = "lt"
     /\ DateLess(Compared(1), Compared(2))
     /\ LimbLess(UtcSeconds(Compared(1)), UtcSeconds(Compared(2)))
     /\ SameSign(UtcSeconds(Compared(1)), UtcSeconds(Compared(2))))
        => ret.val = PyBool(TRUE)

\* the ObjectIds of two seconds before the epoch were compared
C3_Witness ==
    /\ ret.op = "lt" /\ ret.val = PyBool(TRUE)
    /\ DateLess(Compared(1), Compared(2))
    /\ UtcSeconds(Compared(1)) = <<-1, 65534>>
    /\ UtcSeconds(Compared(2)) = <<-1, 65535>>

====
